---- MODULE Spec2Model ----
(***************************************************************************)
(* Model of skills/llm-integration/scripts/llm_client.py: the unified LLM  *)
(* client (provider detection, lazily built SDK clients, blocking and      *)
(* streaming adapters) and the --compare loop of main().                   *)
(*                                                                         *)
(* A Python str is a sequence of one-character strings.  None is the       *)
(* string "None"; no modelled text, key or handle equals it.               *)
(***************************************************************************)
EXTENDS Integers, Sequences, FiniteSets, TLC

VARIABLES
    id_model,          \* _get_provider: the argument `model`
    id_result,         \* _get_provider: the returned provider, "None" before the call
    id_raised,         \* _get_provider: TRUE iff the call raised
    environ,           \* os.environ: GEMINI_API_KEY and GOOGLE_API_KEY
    openai_client,     \* LLMClient._openai_client
    anthropic_client,  \* LLMClient._anthropic_client
    gemini_client,     \* LLMClient._gemini_client
    constructed,       \* per provider, the SDK client objects built so far
    returned,          \* per provider, the objects _get_<p>() has returned so far
    pc,                \* per thread: the statement it is at
    req,               \* per thread: the operation in progress and its arguments
    built,             \* per thread: the value of the constructor call, before the store
    client,            \* per thread: the local `client` of the adapter
    call,              \* per thread: the outbound backend call of this operation
    ncalls,            \* per thread: backend calls issued by this operation
    received,          \* per thread: chunks the backend stream has delivered
    emitted,           \* per thread: fragments the generator has yielded
    resource,          \* per thread: the backend stream, "none", "open" or "released"
    exc,               \* per thread: the exception raised inside the client
    outcome,           \* per thread: what the caller of the operation got
    cmp,               \* per thread: the --compare loop of main()
    gets,              \* per thread: direct calls of a _get_<p>() method made
    ollama_models,     \* the model names the local Ollama server reports
    listing            \* main(): the identifiers --list-ollama has printed

id_vars == <<id_model, id_result, id_raised>>

list_vars == <<ollama_models, listing>>

registry_vars == <<openai_client, anthropic_client, gemini_client, constructed, returned>>

thread_vars == <<pc, req, built, client, call, ncalls, received, emitted, resource,
                 exc, outcome, cmp, gets>>

vars == <<id_model, id_result, id_raised, environ, openai_client, anthropic_client,
          gemini_client, constructed, returned, pc, req, built, client, call, ncalls, received,
          emitted, resource, exc, outcome, cmp, gets, ollama_models, listing>>

None == "None"

(***************************************************************************)
(* Strings                                                                 *)
(***************************************************************************)

\* str.lower() on one character: ASCII upper-case letters fold, the rest stay.
UpperToLower ==
    ("A" :> "a") @@ ("B" :> "b") @@ ("C" :> "c") @@ ("D" :> "d") @@ ("E" :> "e") @@
    ("F" :> "f") @@ ("G" :> "g") @@ ("H" :> "h") @@ ("I" :> "i") @@ ("J" :> "j") @@
    ("K" :> "k") @@ ("L" :> "l") @@ ("M" :> "m") @@ ("N" :> "n") @@ ("O" :> "o") @@
    ("P" :> "p") @@ ("Q" :> "q") @@ ("R" :> "r") @@ ("S" :> "s") @@ ("T" :> "t") @@
    ("U" :> "u") @@ ("V" :> "v") @@ ("W" :> "w") @@ ("X" :> "x") @@ ("Y" :> "y") @@
    ("Z" :> "z")

lower_char(c) == IF c \in DOMAIN UpperToLower THEN UpperToLower[c] ELSE c

\* str.lower()
lower(s) == [i \in 1..Len(s) |-> lower_char(s[i])]

\* str.startswith(prefix)
startswith(s, prefix) ==
    /\ Len(s) >= Len(prefix)
    /\ SubSeq(s, 1, Len(prefix)) = prefix

\* `sub in s`
contains(s, sub) ==
    \E i \in 1..(Len(s) - Len(sub) + 1) : SubSeq(s, i, i + Len(sub) - 1) = sub

S_ollama == <<"o", "l", "l", "a", "m", "a", "/">>
S_gpt    == <<"g", "p", "t">>
S_o1     == <<"o", "1">>
S_ft     == <<"f", "t", ":">>
S_claude == <<"c", "l", "a", "u", "d", "e">>
S_gemini == <<"g", "e", "m", "i", "n", "i">>

Providers == {"ollama", "openai", "anthropic", "gemini"}

(***************************************************************************)
(* LLMClient._get_provider                                                 *)
(***************************************************************************)

\* _get_provider with the 'claude' test moved ahead of the OpenAI tests
_get_provider_claude_first(model) ==
    LET model_lower == lower(model) IN
    IF startswith(model_lower, S_ollama) THEN "ollama"
    ELSE IF contains(model_lower, S_claude) THEN "anthropic"
    ELSE IF \/ contains(model_lower, S_gpt)
            \/ contains(model_lower, S_o1)
            \/ startswith(model_lower, S_ft) THEN "openai"
    ELSE IF contains(model_lower, S_gemini) THEN "gemini"
    ELSE "ollama"

_get_provider(model) ==
    LET model_lower == lower(model) IN
    IF startswith(model_lower, S_ollama) THEN "ollama"
    ELSE IF \/ contains(model_lower, S_gpt)
            \/ contains(model_lower, S_o1)
            \/ startswith(model_lower, S_ft) THEN "openai"
    ELSE IF contains(model_lower, S_claude) THEN "anthropic"
    ELSE IF contains(model_lower, S_gemini) THEN "gemini"
    ELSE "ollama"

(***************************************************************************)
(* The LLMClient instance, the environment and the calling threads         *)
(***************************************************************************)

NumThreads == 2

\* direct _get_<p>() calls per thread
MaxGets == 2

Threads == 1..NumThreads
MainThread == 1

CloudProviders == {"openai", "anthropic", "gemini"}

\* an environment variable is unset, set to the empty string, or set
EnvValues == {None, "", "key"}

NoRequest == [op |-> "none", model |-> <<>>, temperature |-> 0, provider |-> None]
NoCall == [provider |-> None]
NoOutcome == [kind |-> "none"]
NoCompare == [state |-> "none", models |-> <<>>, temperature |-> 0, i |-> 0,
              invoked |-> <<>>, out |-> <<>>]

\* the environments of the process
Environments == [{"GEMINI_API_KEY", "GOOGLE_API_KEY"} -> EnvValues]

\* LLMClient.__init__, in a process with any of these environments
ClientInit ==
    /\ environ \in Environments
    /\ openai_client = None
    /\ anthropic_client = None
    /\ gemini_client = None
    /\ constructed = [p \in CloudProviders |-> {}]
    /\ returned = [p \in CloudProviders |-> {}]
    /\ pc = [t \in Threads |-> "idle"]
    /\ req = [t \in Threads |-> NoRequest]
    /\ built = [t \in Threads |-> None]
    /\ client = [t \in Threads |-> None]
    /\ call = [t \in Threads |-> NoCall]
    /\ ncalls = [t \in Threads |-> 0]
    /\ received = [t \in Threads |-> <<>>]
    /\ emitted = [t \in Threads |-> <<>>]
    /\ resource = [t \in Threads |-> "none"]
    /\ exc = [t \in Threads |-> None]
    /\ outcome = [t \in Threads |-> NoOutcome]
    /\ cmp = [t \in Threads |-> NoCompare]
    /\ gets = [t \in Threads |-> 0]

Init ==
    /\ ClientInit
    /\ id_model = <<>>
    /\ id_result = None
    /\ id_raised = FALSE
    /\ ollama_models = <<>>
    /\ listing = <<>>

\* the cached client attribute of a provider
cached(p) ==
    CASE p = "openai" -> openai_client
      [] p = "anthropic" -> anthropic_client
      [] p = "gemini" -> gemini_client

\* a: os.environ.get(...) or b: os.environ.get(...)
py_or(a, b) == IF a = None \/ a = "" THEN b ELSE a

\* `not api_key`
py_not(v) == v = None \/ v = ""

\* a client object of provider p that no earlier constructor call returned
fresh_handle(p) == p \o "#" \o ToString(1 + Cardinality(constructed[p]))

\* the state of a thread entering an operation
Enter(t, r, first_pc) ==
    /\ pc' = [pc EXCEPT ![t] = first_pc]
    /\ req' = [req EXCEPT ![t] = r]
    /\ built' = [built EXCEPT ![t] = None]
    /\ client' = [client EXCEPT ![t] = None]
    /\ call' = [call EXCEPT ![t] = NoCall]
    /\ ncalls' = [ncalls EXCEPT ![t] = 0]
    /\ received' = [received EXCEPT ![t] = <<>>]
    /\ emitted' = [emitted EXCEPT ![t] = <<>>]
    /\ resource' = [resource EXCEPT ![t] = "none"]
    /\ exc' = [exc EXCEPT ![t] = None]
    /\ outcome' = [outcome EXCEPT ![t] = NoOutcome]

(***************************************************************************)
(* LLMClient._get_openai, _get_anthropic, _get_gemini, statement by        *)
(* statement: a thread can be preempted between any two of them.           *)
(***************************************************************************)

\* a caller invokes client._get_<p>() directly
CallGet(t, p) ==
    /\ pc[t] = "idle"
    /\ gets[t] < MaxGets
    /\ Enter(t, [NoRequest EXCEPT !.op = "get", !.provider = p], "get_check")
    /\ gets' = [gets EXCEPT ![t] = @ + 1]
    /\ UNCHANGED <<id_vars, list_vars, environ, registry_vars, cmp>>

\* GetCheck without the `is None` test: a client is built on every call
GetCheck_no_cache(t) ==
    /\ pc[t] = "get_check"
    /\ LET p == req[t].provider
           api_key == py_or(environ["GEMINI_API_KEY"], environ["GOOGLE_API_KEY"]) IN
       IF p = "gemini" /\ py_not(api_key)
       THEN /\ pc' = [pc EXCEPT ![t] = "raising"]
            /\ exc' = [exc EXCEPT ![t] = "ValueError"]
       ELSE /\ pc' = [pc EXCEPT ![t] = "get_construct"]
            /\ exc' = exc
    /\ UNCHANGED <<id_vars, list_vars, environ, registry_vars, req, built, client, call, ncalls,
                   received, emitted, resource, outcome, cmp, gets>>

\* GetCheck without the `if not api_key: raise`: genai.Client is built regardless
GetCheck_no_key_check(t) ==
    /\ pc[t] = "get_check"
    /\ pc' = [pc EXCEPT ![t] = IF cached(req[t].provider) # None
                                THEN "get_return" ELSE "get_construct"]
    /\ UNCHANGED <<id_vars, list_vars, environ, registry_vars, req, built, client, call, ncalls,
                   received, emitted, resource, exc, outcome, cmp, gets>>

\* `if self._<p>_client is None:` and, for Gemini, the key lookup under it
GetCheck(t) ==
    /\ pc[t] = "get_check"
    /\ LET p == req[t].provider
           api_key == py_or(environ["GEMINI_API_KEY"], environ["GOOGLE_API_KEY"]) IN
       IF cached(p) # None
       THEN /\ pc' = [pc EXCEPT ![t] = "get_return"]
            /\ exc' = exc
       ELSE IF p = "gemini" /\ py_not(api_key)
       THEN /\ pc' = [pc EXCEPT ![t] = "raising"]
            /\ exc' = [exc EXCEPT ![t] = "ValueError"]
       ELSE /\ pc' = [pc EXCEPT ![t] = "get_construct"]
            /\ exc' = exc
    /\ UNCHANGED <<id_vars, list_vars, environ, registry_vars, req, built, client, call, ncalls,
                   received, emitted, resource, outcome, cmp, gets>>

\* OpenAI() / Anthropic() / genai.Client(api_key=api_key) returns a new object
GetConstruct(t) ==
    /\ pc[t] = "get_construct"
    /\ built' = [built EXCEPT ![t] = fresh_handle(req[t].provider)]
    /\ constructed' = [constructed EXCEPT ![req[t].provider] =
                          @ \cup {fresh_handle(req[t].provider)}]
    /\ pc' = [pc EXCEPT ![t] = "get_store"]
    /\ UNCHANGED <<id_vars, list_vars, environ, openai_client, anthropic_client, gemini_client,
                   returned, req, client, call, ncalls, received, emitted, resource, exc,
                   outcome, cmp, gets>>

\* the constructor raises (the SDK finds no credentials of its own)
GetConstructFails(t) ==
    /\ pc[t] = "get_construct"
    /\ pc' = [pc EXCEPT ![t] = "raising"]
    /\ exc' = [exc EXCEPT ![t] = "SdkInitError"]
    /\ UNCHANGED <<id_vars, list_vars, environ, registry_vars, req, built, client, call, ncalls,
                   received, emitted, resource, outcome, cmp, gets>>

\* `self._<p>_client = <the new object>`
GetStore(t) ==
    /\ pc[t] = "get_store"
    /\ LET p == req[t].provider IN
       /\ openai_client' = IF p = "openai" THEN built[t] ELSE openai_client
       /\ anthropic_client' = IF p = "anthropic" THEN built[t] ELSE anthropic_client
       /\ gemini_client' = IF p = "gemini" THEN built[t] ELSE gemini_client
    /\ pc' = [pc EXCEPT ![t] = "get_return"]
    /\ UNCHANGED <<id_vars, list_vars, environ, constructed, returned, req, built, client, call,
                   ncalls,
                   received, emitted, resource, exc, outcome, cmp, gets>>

\* `return self._<p>_client`: the attribute is read again
GetReturn(t) ==
    /\ pc[t] = "get_return"
    /\ client' = [client EXCEPT ![t] = cached(req[t].provider)]
    /\ returned' = [returned EXCEPT ![req[t].provider] = @ \cup {cached(req[t].provider)}]
    /\ IF req[t].op = "get"
       THEN /\ pc' = [pc EXCEPT ![t] = "done"]
            /\ outcome' = [outcome EXCEPT ![t] =
                              [kind |-> "handle", value |-> cached(req[t].provider)]]
       ELSE /\ pc' = [pc EXCEPT ![t] = "send"]
            /\ outcome' = outcome
    /\ UNCHANGED <<id_vars, list_vars, environ, openai_client, anthropic_client, gemini_client,
                   constructed, req, built, call, ncalls, received, emitted, resource,
                   exc, cmp, gets>>

\* the caller has what the operation gave it and goes on: its locals and the
\* frames of the operation are gone
Finish(t) ==
    /\ pc[t] = "done"
    /\ Enter(t, NoRequest, "idle")
    /\ cmp' = [cmp EXCEPT ![t] = NoCompare]
    /\ UNCHANGED <<id_vars, list_vars, environ, registry_vars, gets>>

\* where control goes when chat() or stream() is left: back into the
\* --compare loop of main(), or to a caller that is done with the operation
after(t) == IF cmp[t].state = "running" THEN "cmp_record" ELSE "done"

\* chat() and stream() with an `except Exception: return ""`
propagate_swallowed(e) == [kind |-> "returned", value |-> ""]

\* chat() and stream() have no except clause: what was raised is what leaves
propagate(e) == [kind |-> "raised", value |-> e]

\* the exception leaves the frames of the client and reaches the caller
Raise(t) ==
    /\ pc[t] = "raising"
    /\ outcome' = [outcome EXCEPT ![t] = propagate(exc[t])]
    /\ pc' = [pc EXCEPT ![t] = after(t)]
    /\ UNCHANGED <<id_vars, list_vars, environ, registry_vars, req, built, client, call, ncalls,
                   received, emitted, resource, exc, cmp, gets>>

(***************************************************************************)
(* LLMClient.chat and LLMClient.stream                                     *)
(***************************************************************************)

\* temperatures in tenths: 0.7, 0.9, 1.0, 1.1, 1.5
Temperatures == {7, 9, 10, 11, 15}

Id_gpt4o     == S_gpt \o <<"-", "4", "o">>
Id_llama     == S_ollama \o <<"x">>
Id_LLAMA     == <<"O", "L", "L", "A", "M", "A", "/">> \o <<"x">>
Id_local     == <<"x">>

\* the model identifiers of the requests
RequestModels == {Id_gpt4o, S_claude, S_gemini, Id_llama, Id_LLAMA, Id_local}

\* what an SDK call can raise
BackendErrors == {"ConnectionError", "APIStatusError"}

\* a reply envelope: the text field is missing from it, or holds None or a str
Replies == { [present |-> FALSE, text |-> None],
             [present |-> TRUE, text |-> None],
             [present |-> TRUE, text |-> ""],
             [present |-> TRUE, text |-> "hello"] }

\* str.replace(old, ""): every occurrence, left to right
RECURSIVE replace(_, _)
replace(s, old) ==
    IF Len(s) < Len(old) THEN s
    ELSE IF SubSeq(s, 1, Len(old)) = old
         THEN replace(SubSeq(s, Len(old) + 1, Len(s)), old)
         ELSE <<Head(s)>> \o replace(Tail(s), old)

\* anthropic_temperature with `<` for `<=`
anthropic_temperature_strict(temperature) ==
    IF temperature < 10 THEN {temperature} ELSE {}

\* the keyword `temperature` of messages.create / messages.stream
anthropic_temperature(temperature) ==
    IF temperature <= 10 THEN {temperature} ELSE {}

\* the arguments of the backend call each adapter builds
create_kwargs(r, streaming) ==
    [ provider |-> r.provider,
      model |-> IF r.provider = "ollama" THEN replace(r.model, S_ollama) ELSE r.model,
      temperature |-> IF r.provider = "anthropic"
                      THEN anthropic_temperature(r.temperature)
                      ELSE {r.temperature},
      stream |-> streaming ]

\* the lookup that fails on a reply without the field
lookup_error(p) ==
    CASE p = "ollama" -> "KeyError"
      [] p = "openai" -> "IndexError"
      [] p = "anthropic" -> "IndexError"
      [] p = "gemini" -> "AttributeError"

\* response["message"]["content"], response.choices[0].message.content,
\* message.content[0].text, response.text: the field's value as it is
extract_text(p, reply) ==
    IF reply.present
    THEN [kind |-> "returned", value |-> reply.text]
    ELSE [kind |-> "raised", value |-> lookup_error(p)]

\* client.chat(model, prompt, temperature=...)
CallChat(t, model, temperature) ==
    /\ pc[t] = "idle"
    /\ LET p == _get_provider(model) IN
       Enter(t, [op |-> "chat", model |-> model, temperature |-> temperature,
                 provider |-> p],
             IF p = "ollama" THEN "send" ELSE "get_check")
    /\ cmp' = [cmp EXCEPT ![t] = NoCompare]
    /\ UNCHANGED <<id_vars, list_vars, environ, registry_vars, gets>>

\* client.stream(model, prompt, temperature=...) and the first next() on it
CallStream(t, model, temperature) ==
    /\ pc[t] = "idle"
    /\ LET p == _get_provider(model) IN
       Enter(t, [op |-> "stream", model |-> model, temperature |-> temperature,
                 provider |-> p],
             IF p = "ollama" THEN "send" ELSE "get_check")
    /\ cmp' = [cmp EXCEPT ![t] = NoCompare]
    /\ UNCHANGED <<id_vars, list_vars, environ, registry_vars, gets>>

\* _chat_<p>: the backend call raises
ChatCallFails(t, e) ==
    /\ pc[t] = "send"
    /\ req[t].op = "chat"
    /\ call' = [call EXCEPT ![t] = create_kwargs(req[t], FALSE)]
    /\ ncalls' = [ncalls EXCEPT ![t] = @ + 1]
    /\ exc' = [exc EXCEPT ![t] = e]
    /\ pc' = [pc EXCEPT ![t] = "raising"]
    /\ UNCHANGED <<id_vars, list_vars, environ, registry_vars, req, built, client, received,
                   emitted, resource, outcome, cmp, gets>>

\* _chat_<p>: the backend call returns a reply and the text is taken out of it
ChatCallReturns(t, reply) ==
    /\ pc[t] = "send"
    /\ req[t].op = "chat"
    /\ call' = [call EXCEPT ![t] = create_kwargs(req[t], FALSE)]
    /\ ncalls' = [ncalls EXCEPT ![t] = @ + 1]
    /\ received' = [received EXCEPT ![t] = <<reply>>]
    /\ LET res == extract_text(req[t].provider, reply) IN
       IF res.kind = "raised"
       THEN /\ exc' = [exc EXCEPT ![t] = res.value]
            /\ pc' = [pc EXCEPT ![t] = "raising"]
            /\ outcome' = outcome
       ELSE /\ exc' = exc
            /\ pc' = [pc EXCEPT ![t] = after(t)]
            /\ outcome' = [outcome EXCEPT ![t] = res]
    /\ UNCHANGED <<id_vars, list_vars, environ, registry_vars, req, built, client, emitted,
                   resource, cmp, gets>>

(***************************************************************************)
(* The streaming adapters.  A generator runs only while the consumer is in *)
(* next(): at "yielded" the consumer holds a fragment and either asks for  *)
(* the next one or gives the generator up, which closes it.                *)
(***************************************************************************)

MaxChunks == 2

\* the content of one chunk: missing (None), empty or a text
ChunkTexts == {None, "", "a", "b"}

\* stream.text_stream of the Anthropic SDK yields str only
chunk_texts(p) == IF p = "anthropic" THEN ChunkTexts \ {None} ELSE ChunkTexts

\* the truth value of a chunk's content
truthy(c) == c # None /\ c # ""

\* the test in front of the yield: _stream_anthropic has none
yields(p, c) == IF p = "anthropic" THEN TRUE ELSE truthy(c)

\* `with client.messages.stream(...) as stream:` closes the stream when the
\* block is left, whichever way; the other adapters hold their stream in a
\* plain local and have no with, no finally and no close()
closes_on_exit(p) == p = "anthropic"

\* _stream_<p>: the call that opens the stream raises
StreamCallFails(t, e) ==
    /\ pc[t] = "send"
    /\ req[t].op = "stream"
    /\ call' = [call EXCEPT ![t] = create_kwargs(req[t], TRUE)]
    /\ ncalls' = [ncalls EXCEPT ![t] = @ + 1]
    /\ exc' = [exc EXCEPT ![t] = e]
    /\ pc' = [pc EXCEPT ![t] = "raising"]
    /\ UNCHANGED <<id_vars, list_vars, environ, registry_vars, req, built, client, received,
                   emitted, resource, outcome, cmp, gets>>

\* _stream_<p>: the call returns an open stream
StreamCallOpens(t) ==
    /\ pc[t] = "send"
    /\ req[t].op = "stream"
    /\ call' = [call EXCEPT ![t] = create_kwargs(req[t], TRUE)]
    /\ ncalls' = [ncalls EXCEPT ![t] = @ + 1]
    /\ resource' = [resource EXCEPT ![t] = "open"]
    /\ pc' = [pc EXCEPT ![t] = "streaming"]
    /\ UNCHANGED <<id_vars, list_vars, environ, registry_vars, req, built, client, received,
                   emitted, exc, outcome, cmp, gets>>

\* one turn of `for chunk in stream:` with the backend delivering chunk c
StreamChunk(t, c) ==
    /\ pc[t] \in {"streaming", "yielded"}
    /\ Len(received[t]) < MaxChunks
    /\ c \in chunk_texts(req[t].provider)
    /\ received' = [received EXCEPT ![t] = Append(@, c)]
    /\ IF yields(req[t].provider, c)
       THEN /\ emitted' = [emitted EXCEPT ![t] = Append(@, c)]
            /\ pc' = [pc EXCEPT ![t] = "yielded"]
       ELSE /\ emitted' = emitted
            /\ pc' = [pc EXCEPT ![t] = "streaming"]
    /\ UNCHANGED <<id_vars, list_vars, environ, registry_vars, req, built, client, call, ncalls,
                   resource, exc, outcome, cmp, gets>>

\* the backend ends the stream: its iterator is exhausted and has given its
\* connection back, the for loop ends and the generator returns
StreamEnd(t) ==
    /\ pc[t] \in {"streaming", "yielded"}
    /\ resource' = [resource EXCEPT ![t] = "released"]
    /\ outcome' = [outcome EXCEPT ![t] = [kind |-> "exhausted", value |-> emitted[t]]]
    /\ pc' = [pc EXCEPT ![t] = after(t)]
    /\ UNCHANGED <<id_vars, list_vars, environ, registry_vars, req, built, client, call, ncalls,
                   received, emitted, exc, cmp, gets>>

\* the backend iterator raises in the middle of the stream
StreamFails(t, e) ==
    /\ pc[t] \in {"streaming", "yielded"}
    /\ resource' = [resource EXCEPT ![t] = "released"]
    /\ exc' = [exc EXCEPT ![t] = e]
    /\ pc' = [pc EXCEPT ![t] = "raising"]
    /\ UNCHANGED <<id_vars, list_vars, environ, registry_vars, req, built, client, call, ncalls,
                   received, emitted, outcome, cmp, gets>>

\* the consumer stops iterating: the generator is closed at its yield and
\* GeneratorExit unwinds the adapter's frame
StreamAbandon(t) ==
    /\ pc[t] = "yielded"
    /\ resource' = [resource EXCEPT ![t] =
                      IF closes_on_exit(req[t].provider) THEN "released" ELSE @]
    /\ outcome' = [outcome EXCEPT ![t] = [kind |-> "abandoned", value |-> emitted[t]]]
    /\ pc' = [pc EXCEPT ![t] = after(t)]
    /\ UNCHANGED <<id_vars, list_vars, environ, registry_vars, req, built, client, call, ncalls,
                   received, emitted, exc, cmp, gets>>

(***************************************************************************)
(* main(): the --compare branch                                            *)
(***************************************************************************)

MaxCompare == 2

CompareModels == {Id_gpt4o, S_gemini}

\* parser.add_argument("--temperature", "-t", type=float, default=0.7), in tenths
DefaultTemperature == 7

RECURSIVE SeqsUpTo(_, _)
SeqsUpTo(S, n) ==
    IF n = 0 THEN { <<>> }
    ELSE LET shorter == SeqsUpTo(S, n - 1) IN
         shorter \cup { Append(q, x) : q \in shorter, x \in S }

\* `models = [...]` and the entry into the for loop
StartCompare(t, models, temperature) ==
    /\ pc[t] = "idle"
    /\ Enter(t, NoRequest, "cmp_loop")
    /\ cmp' = [cmp EXCEPT ![t] = [state |-> "running", models |-> models,
                                   temperature |-> temperature, i |-> 1,
                                   invoked |-> <<>>, out |-> <<>>]]
    /\ UNCHANGED <<id_vars, list_vars, environ, registry_vars, gets>>

\* CompareCall submitting every remaining model at once and awaiting the first
CompareCall_all_at_once(t) ==
    /\ pc[t] = "cmp_loop"
    /\ cmp[t].i <= Len(cmp[t].models)
    /\ LET model == cmp[t].models[cmp[t].i]
           p == _get_provider(model) IN
       Enter(t, [op |-> "chat", model |-> model, temperature |-> cmp[t].temperature,
                 provider |-> p],
             IF p = "ollama" THEN "send" ELSE "get_check")
    /\ cmp' = [cmp EXCEPT ![t].invoked = cmp[t].models]
    /\ UNCHANGED <<id_vars, list_vars, environ, registry_vars, gets>>

\* `for model in models:` has a next model: `response = client.chat(model=model, ...)`
CompareCall(t) ==
    /\ pc[t] = "cmp_loop"
    /\ cmp[t].i <= Len(cmp[t].models)
    /\ LET model == cmp[t].models[cmp[t].i]
           p == _get_provider(model) IN
       Enter(t, [op |-> "chat", model |-> model, temperature |-> cmp[t].temperature,
                 provider |-> p],
             IF p = "ollama" THEN "send" ELSE "get_check")
    /\ cmp' = [cmp EXCEPT ![t].invoked = Append(@, cmp[t].models[cmp[t].i])]
    /\ UNCHANGED <<id_vars, list_vars, environ, registry_vars, gets>>

\* CompareRecord with the try/except around the whole loop: an error is
\* printed and the loop is over
CompareRecord_abort_on_error(t) ==
    /\ pc[t] = "cmp_record"
    /\ cmp' = [cmp EXCEPT ![t].out =
                  Append(@, [model |-> cmp[t].models[cmp[t].i],
                             kind |-> IF outcome[t].kind = "raised"
                                      THEN "error" ELSE "response",
                             value |-> outcome[t].value]),
                          ![t].i = IF outcome[t].kind = "raised"
                                   THEN Len(cmp[t].models) + 1 ELSE @ + 1]
    /\ pc' = [pc EXCEPT ![t] = "cmp_loop"]
    /\ UNCHANGED <<id_vars, list_vars, environ, registry_vars, req, built, client, call, ncalls,
                   received, emitted, resource, exc, outcome, gets>>

\* print(response), or `except Exception as e: print(f"Error: {e}")`, and on
\* to the next turn of the loop
CompareRecord(t) ==
    /\ pc[t] = "cmp_record"
    /\ cmp' = [cmp EXCEPT ![t].out =
                  Append(@, [model |-> cmp[t].models[cmp[t].i],
                             kind |-> IF outcome[t].kind = "raised"
                                      THEN "error" ELSE "response",
                             value |-> outcome[t].value]),
                          ![t].i = @ + 1]
    /\ pc' = [pc EXCEPT ![t] = "cmp_loop"]
    /\ UNCHANGED <<id_vars, list_vars, environ, registry_vars, req, built, client, call, ncalls,
                   received, emitted, resource, exc, outcome, gets>>

\* the for loop is exhausted: `return`
CompareReturn(t) ==
    /\ pc[t] = "cmp_loop"
    /\ cmp[t].i > Len(cmp[t].models)
    /\ cmp' = [cmp EXCEPT ![t].state = "done"]
    /\ pc' = [pc EXCEPT ![t] = "done"]
    /\ UNCHANGED <<id_vars, list_vars, environ, registry_vars, req, built, client, call, ncalls,
                   received, emitted, resource, exc, outcome, gets>>

\* one caller using one LLMClient, one operation after the other
Next ==
    \/ \E m \in RequestModels, temp \in Temperatures : CallChat(MainThread, m, temp)
    \/ \E m \in RequestModels, temp \in Temperatures : CallStream(MainThread, m, temp)
    \/ GetCheck(MainThread)
    \/ GetConstruct(MainThread)
    \/ GetConstructFails(MainThread)
    \/ GetStore(MainThread)
    \/ GetReturn(MainThread)
    \/ Raise(MainThread)
    \/ Finish(MainThread)
    \/ \E e \in BackendErrors : ChatCallFails(MainThread, e)
    \/ \E reply \in Replies : ChatCallReturns(MainThread, reply)
    \/ \E e \in BackendErrors : StreamCallFails(MainThread, e)
    \/ StreamCallOpens(MainThread)
    \/ \E c \in ChunkTexts : StreamChunk(MainThread, c)
    \/ StreamEnd(MainThread)
    \/ \E e \in BackendErrors : StreamFails(MainThread, e)
    \/ StreamAbandon(MainThread)
    \/ \E models \in SeqsUpTo(CompareModels, MaxCompare) :
           StartCompare(MainThread, models, DefaultTemperature)
    \/ CompareCall(MainThread)
    \/ CompareRecord(MainThread)
    \/ CompareReturn(MainThread)

Spec == Init /\ [][Next]_vars

(***************************************************************************)
(* LLMClient.list_ollama_models and the --list-ollama branch of main(),    *)
(* followed by requests for the identifiers that were printed              *)
(***************************************************************************)

MaxListed == 2

\* names a local server can report: 'x', 'y', 'ollama/x', 'y/ollama/x'
OllamaNames ==
    { <<"x">>, <<"y">>, S_ollama \o <<"x">>, <<"y", "/">> \o S_ollama \o <<"x">> }

\* [m["name"] for m in models.get("models", [])]
list_ollama_models(models) == [k \in 1..Len(models) |-> models[k]]

\* print(f"  - ollama/{m}")
printed_identifier(m) == S_ollama \o m

ListInit ==
    /\ ClientInit
    /\ environ = [v \in {"GEMINI_API_KEY", "GOOGLE_API_KEY"} |-> None]
    /\ id_model = <<>>
    /\ id_result = None
    /\ id_raised = FALSE
    /\ ollama_models \in SeqsUpTo(OllamaNames, MaxListed)
    /\ listing = <<>>

\* `models = client.list_ollama_models()` and the loop printing each of them
ListOllama(t) ==
    /\ pc[t] = "idle"
    /\ listing = <<>>
    /\ LET models == list_ollama_models(ollama_models) IN
       listing' = [k \in 1..Len(models) |-> printed_identifier(models[k])]
    /\ UNCHANGED <<id_vars, ollama_models, environ, registry_vars, thread_vars>>

\* the model list is printed, then the printed identifiers are used
NextList ==
    \/ ListOllama(MainThread)
    \/ \E k \in 1..Len(listing), temp \in Temperatures :
           CallChat(MainThread, listing[k], temp)
    \/ \E k \in 1..Len(listing), temp \in Temperatures :
           CallStream(MainThread, listing[k], temp)
    \/ \E e \in BackendErrors : ChatCallFails(MainThread, e)
    \/ \E reply \in Replies : ChatCallReturns(MainThread, reply)
    \/ \E e \in BackendErrors : StreamCallFails(MainThread, e)
    \/ StreamCallOpens(MainThread)
    \/ \E c \in ChunkTexts : StreamChunk(MainThread, c)
    \/ StreamEnd(MainThread)
    \/ \E e \in BackendErrors : StreamFails(MainThread, e)
    \/ StreamAbandon(MainThread)
    \/ Raise(MainThread)
    \/ Finish(MainThread)

SpecList == ListInit /\ [][NextList]_vars
\* threads sharing one LLMClient and calling its _get_<p>() methods
NextRegistry ==
    \E t \in Threads :
        \/ \E p \in CloudProviders : CallGet(t, p)
        \/ GetCheck(t)
        \/ GetConstruct(t)
        \/ GetConstructFails(t)
        \/ GetStore(t)
        \/ GetReturn(t)
        \/ Raise(t)
        \/ Finish(t)

SpecRegistry == Init /\ [][NextRegistry]_vars

(***************************************************************************)
(* Model identifiers handed to _get_provider: concatenations of at most    *)
(* MaxTokens tokens, plus the identifiers the documentation names.         *)
(***************************************************************************)

MaxTokens == 2

Tokens ==
    { S_ollama, <<"O", "l", "l", "a", "m", "A", "/">>, <<"o", "l", "l", "a", "m", "a">>,
      S_gpt, <<"G", "P", "T">>, S_o1, <<"O", "1">>, S_ft, <<"F", "T", ":">>,
      S_claude, <<"C", "l", "a", "u", "d", "E">>, S_gemini, <<"G", "E", "M", "I", "N", "I">>,
      <<"x">>, <<"-", "4">>, <<"/">> }

RECURSIVE Concats(_)
Concats(n) ==
    IF n = 0 THEN { <<>> }
    ELSE LET shorter == Concats(n - 1) IN
         shorter \cup { s \o t : s \in shorter, t \in Tokens }

Id_ollama_gpt4 == S_ollama \o S_gpt \o <<"-", "4">>
Id_claude_gpt  == S_claude \o <<"-">> \o S_gpt
Id_mystery     == <<"m", "y", "s", "t", "e", "r", "y", "-", "m", "o", "d", "e", "l">>
Id_GPT4o       == <<"G", "P", "T", "-", "4", "o">>

ModelIds == Concats(MaxTokens) \cup {Id_ollama_gpt4, Id_claude_gpt, Id_mystery, Id_GPT4o}

\* a call of client._get_provider(model) on a fresh argument
IdInit ==
    /\ id_model \in ModelIds
    /\ id_result = None
    /\ id_raised = FALSE
    /\ ClientInit
    /\ environ = [v \in {"GEMINI_API_KEY", "GOOGLE_API_KEY"} |-> None]
    /\ ollama_models = <<>>
    /\ listing = <<>>

\* no statement of _get_provider can raise on a str argument
Identify ==
    /\ id_result = None
    /\ id_result' = _get_provider(id_model)
    /\ id_raised' = FALSE
    /\ UNCHANGED <<id_model, list_vars, environ, registry_vars, thread_vars>>

IdNext == Identify

SpecIdent == IdInit /\ [][IdNext]_vars

(***************************************************************************)
(* Provider identification: the documented rule list                       *)
(***************************************************************************)

\* two characters are the same letter, whatever their case
SameLetter(a, b) ==
    \/ a = b
    \/ a \in DOMAIN UpperToLower /\ UpperToLower[a] = b
    \/ b \in DOMAIN UpperToLower /\ UpperToLower[b] = a

MatchesAt(s, pat, i) ==
    /\ i >= 1
    /\ i + Len(pat) - 1 <= Len(s)
    /\ \A k \in 1..Len(pat) : SameLetter(s[i + k - 1], pat[k])

BeginsWithCI(s, pat) == MatchesAt(s, pat, 1)
ContainsCI(s, pat) == \E i \in 1..Len(s) : MatchesAt(s, pat, i)

RuleOllamaPrefix(m) == BeginsWithCI(m, S_ollama)
RuleOpenAI(m) == ContainsCI(m, S_gpt) \/ ContainsCI(m, S_o1) \/ BeginsWithCI(m, S_ft)
RuleAnthropic(m) == ContainsCI(m, S_claude)
RuleGemini(m) == ContainsCI(m, S_gemini)

FirstMatchingRule(m) ==
    CASE RuleOllamaPrefix(m) -> "ollama"
      [] ~RuleOllamaPrefix(m) /\ RuleOpenAI(m) -> "openai"
      [] ~RuleOllamaPrefix(m) /\ ~RuleOpenAI(m) /\ RuleAnthropic(m) -> "anthropic"
      [] ~RuleOllamaPrefix(m) /\ ~RuleOpenAI(m) /\ ~RuleAnthropic(m) /\ RuleGemini(m) -> "gemini"
      [] OTHER -> "ollama"

\* C1: for every model identifier, provider identification returns exactly one
\* of the four providers and never raises, and the result is the first matching
\* rule, matched case-insensitively, in the order: begins with 'ollama/' ->
\* ollama; contains 'gpt' or 'o1' or begins with 'ft:' -> openai; contains
\* 'claude' -> anthropic; contains 'gemini' -> gemini; otherwise ollama.  So
\* 'ollama/gpt-4' is ollama, 'claude-gpt' is openai, 'mystery-model' is ollama.
C1_FirstMatchingRuleWins ==
    /\ ~id_raised
    /\ id_result # None =>
          /\ id_result \in Providers
          /\ id_result = FirstMatchingRule(id_model)
          /\ id_model = Id_ollama_gpt4 => id_result = "ollama"
          /\ id_model = Id_claude_gpt => id_result = "openai"
          /\ id_model = Id_mystery => id_result = "ollama"

\* 'claude-gpt' has been identified: two rules match and the earlier one won
C1_Witness == id_model = Id_claude_gpt /\ id_result = "openai"

(***************************************************************************)
(* The lazily built SDK clients                                            *)
(***************************************************************************)

\* C2: over any sequence of sequential chat and stream requests the client
\* object of each provider is constructed at most once, every _get_<p>() call
\* after the construction returns that one cached object, and a stored
\* object is never replaced or cleared.
C2_HandleBuiltOnce ==
    /\ [](\A p \in CloudProviders :
            /\ Cardinality(constructed[p]) <= 1
            /\ Cardinality(returned[p]) <= 1
            /\ returned[p] \subseteq constructed[p]
            /\ cached(p) # None => constructed[p] = {cached(p)}
            /\ \A t \in Threads :
                 (req[t].provider = p /\ client[t] # None) => client[t] = cached(p))
    /\ [][ /\ openai_client # None => openai_client' = openai_client
           /\ anthropic_client # None => anthropic_client' = anthropic_client
           /\ gemini_client # None => gemini_client' = gemini_client ]_vars

\* the second request to a provider got the object the first one built
C2_Witness ==
    /\ pc[MainThread] = "send"
    /\ req[MainThread].provider \in CloudProviders
    /\ built[MainThread] = None
    /\ client[MainThread] # None
    /\ constructed[req[MainThread].provider] = {client[MainThread]}

\* C3: when two or more callers concurrently make the first _get_<p>() call
\* for the same provider, under every interleaving at most one client object
\* is constructed for it and every caller is returned that same object.
C3_OneHandleUnderRace ==
    \A p \in CloudProviders :
        /\ Cardinality(constructed[p]) <= 1
        /\ Cardinality(returned[p]) <= 1

(***************************************************************************)
(* The comparison loop                                                     *)
(***************************************************************************)

\* C4: for every list of models given to --compare and every pattern of
\* per-model chat failures, chat is invoked exactly once per model and there is
\* exactly one outcome per model, in the given order: the response text of a
\* chat that returned, the failure of one that raised; a failure of model i
\* never prevents the invocation of a later model.
C4_CompareIsolatesFailures ==
    \A t \in Threads :
        LET c == cmp[t] IN
        c.state # "none" =>
            /\ c.invoked = SubSeq(c.models, 1, Len(c.invoked))
            /\ Len(c.out) = c.i - 1
            /\ Len(c.invoked) \in {Len(c.out), Len(c.out) + 1}
            /\ \A k \in 1..Len(c.out) : c.out[k].model = c.models[k]
            /\ c.state = "done" => (c.invoked = c.models /\ Len(c.out) = Len(c.models))
            /\ (pc[t] \in {"cmp_loop", "done"} /\ Len(c.out) > 0) =>
                  LET last == c.out[Len(c.out)] IN
                  /\ exc[t] = None =>
                        (last.kind = "response" /\ last.value = received[t][1].text)
                  /\ exc[t] # None => (last.kind = "error" /\ last.value = exc[t])

\* a finished comparison of two models whose first chat failed and whose
\* second chat answered
C4_Witness ==
    LET c == cmp[MainThread] IN
    /\ c.state = "done"
    /\ Len(c.models) = 2
    /\ c.out[1].kind = "error"
    /\ c.out[2].kind = "response"
    /\ c.out[2].value = "hello"

(***************************************************************************)
(* Failures                                                                *)
(***************************************************************************)

NoGeminiKey == \A v \in DOMAIN environ : environ[v] \in {None, ""}

\* C5: with no Gemini API key in the environment and no Gemini client built
\* yet, every chat or stream request routed to Gemini fails with the
\* configuration error (ValueError), which reaches the caller; no backend call
\* is made and no Gemini client is built or cached.
C5_GeminiWithoutKeyFails ==
    \A t \in Threads :
        (NoGeminiKey /\ req[t].provider = "gemini" /\ req[t].op \in {"chat", "stream"}) =>
            /\ ncalls[t] = 0
            /\ call[t] = NoCall
            /\ resource[t] = "none"
            /\ gemini_client = None
            /\ constructed["gemini"] = {}
            /\ pc[t] \in {"get_check", "raising", "done", "cmp_record", "cmp_loop"}
            /\ pc[t] # "get_check" => exc[t] = "ValueError"
            /\ pc[t] \in {"done", "cmp_record", "cmp_loop"} =>
                  outcome[t] = [kind |-> "raised", value |-> "ValueError"]

\* a stream request to Gemini, made without a key, has failed at its caller
C5_Witness ==
    /\ NoGeminiKey
    /\ req[MainThread].provider = "gemini"
    /\ req[MainThread].op = "stream"
    /\ pc[MainThread] = "done"
    /\ outcome[MainThread].kind = "raised"

\* C6: for every provider and every sequence of chunks the backend delivers
\* on a stream, the fragments emitted are exactly the chunks with non-empty
\* text, in arrival order: no empty fragment, none dropped, none reordered.
C6_OnlyNonEmptyFragments ==
    \A t \in Threads :
        req[t].op = "stream" => emitted[t] = SelectSeq(received[t], truthy)

LacksText(reply) == ~reply.present \/ reply.text = None

\* C7: for every provider, when the reply to a blocking chat lacks the text
\* field (absent or null), extraction fails with an error; chat never returns
\* an empty, null or placeholder value as if it had succeeded.
C7_MissingTextIsAnError ==
    \A t \in Threads :
        (req[t].op = "chat" /\ received[t] # <<>> /\ LacksText(received[t][1])) =>
            /\ exc[t] # None
            /\ outcome[t].kind # "returned"

\* C8: for every Anthropic request, blocking or streaming, the outbound call
\* carries a temperature iff the requested temperature is <= 1.0, and then the
\* requested one; above 1.0 the call is made without the field, with no error.
C8_AnthropicTemperature ==
    \A t \in Threads :
        (req[t].provider = "anthropic" /\ req[t].op \in {"chat", "stream"}) =>
            /\ call[t] # NoCall =>
                  /\ call[t].provider = "anthropic"
                  /\ call[t].temperature # {} <=> req[t].temperature <= 10
                  /\ call[t].temperature \subseteq {req[t].temperature}
                  /\ call[t].stream <=> req[t].op = "stream"
            /\ (client[t] # None /\ pc[t] # "send") =>
                  (ncalls[t] = 1 /\ call[t] # NoCall)

\* a streaming Anthropic call asked for 1.5 went out without a temperature
C8_Witness ==
    /\ req[MainThread].provider = "anthropic"
    /\ req[MainThread].op = "stream"
    /\ req[MainThread].temperature = 15
    /\ call[MainThread] # NoCall
    /\ call[MainThread].temperature = {}
    /\ pc[MainThread] = "yielded"

\* C9: for a single-model chat or stream every failure raised by a
\* _get_<p>() or by the backend call reaches the immediate caller as that same
\* failure; at most one backend call is issued per request, and a failure is
\* never turned into a returned text or a stream that just ends.
C9_FailuresPropagate ==
    \A t \in Threads :
        (req[t].op \in {"chat", "stream"} /\ cmp[t].state = "none") =>
            /\ ncalls[t] <= 1
            /\ (pc[t] = "done" /\ exc[t] # None) =>
                  outcome[t] = [kind |-> "raised", value |-> exc[t]]
            /\ (pc[t] = "done" /\ exc[t] = None) =>
                  outcome[t].kind \in {"returned", "exhausted", "abandoned"}
            /\ exc[t] # None => pc[t] \in {"raising", "done"}

\* a stream that failed after a fragment had been emitted: the caller got
\* the failure
C9_Witness ==
    /\ req[MainThread].op = "stream"
    /\ cmp[MainThread].state = "none"
    /\ pc[MainThread] = "done"
    /\ Len(emitted[MainThread]) > 0
    /\ ncalls[MainThread] = 1
    /\ exc[MainThread] = "ConnectionError"
    /\ outcome[MainThread] = [kind |-> "raised", value |-> "ConnectionError"]

\* C10: for every provider's streaming adapter, an opened backend stream is
\* released by the adapter both when the consumer exhausts the sequence and
\* when it stops iterating early; no path leaves an opened stream unreleased.
C10_StreamAlwaysReleased ==
    \A t \in Threads :
        ( /\ req[t].op = "stream"
          /\ pc[t] = "done"
          /\ outcome[t].kind \in {"exhausted", "abandoned"} )
        => resource[t] = "released"

(***************************************************************************)
(* Ollama model names                                                      *)
(***************************************************************************)

\* C11: the listing gives, for every model name N the local backend reports,
\* the identifier 'ollama/' + N, in the backend's order, and each identifier
\* round-trips: a request for it is routed to Ollama and the model name sent
\* to the backend is exactly N.
C11_ListedIdentifiersRoundTrip ==
    /\ listing # <<>> =>
          /\ Len(listing) = Len(ollama_models)
          /\ \A k \in 1..Len(listing) : listing[k] = S_ollama \o ollama_models[k]
    /\ \A t \in Threads : \A k \in 1..Len(listing) :
          (req[t].op \in {"chat", "stream"} /\ req[t].model = listing[k]) =>
              /\ req[t].provider = "ollama"
              /\ call[t] # NoCall => call[t].model = ollama_models[k]

(***************************************************************************)
(* The comparison loop, one model at a time                                *)
(***************************************************************************)

\* C12: the comparison run invokes the models strictly one at a time in list
\* order: the chat for model i+1 is started only after the outcome of model i
\* has been recorded, so at most one chat invocation is in flight.
C12_CompareOneAtATime ==
    /\ [](\A t \in Threads :
            LET c == cmp[t] IN
            c.state # "none" =>
                /\ Len(c.invoked) - Len(c.out) \in {0, 1}
                /\ Len(c.invoked) - Len(c.out) = 1 <=> pc[t] \notin {"cmp_loop", "done"}
                /\ c.invoked = SubSeq(c.models, 1, Len(c.invoked)))
    /\ [][\A t \in Threads :
            (cmp[t].state = "running" /\ cmp'[t].invoked # cmp[t].invoked) =>
                /\ Len(cmp[t].out) = Len(cmp[t].invoked)
                /\ cmp'[t].invoked = Append(cmp[t].invoked,
                                            cmp[t].models[Len(cmp[t].out) + 1])]_vars

\* the chat of the second model is in flight and the first outcome is recorded
C12_Witness ==
    LET c == cmp[MainThread] IN
    /\ c.state = "running"
    /\ Len(c.models) = 2
    /\ Len(c.out) = 1
    /\ Len(c.invoked) = 2
    /\ pc[MainThread] = "send"

\* C13: for every identifier routed to Ollama, blocking or streaming, the
\* model name sent to the backend is the identifier without its leading
\* 'ollama/' when routing matched that prefix, in whatever letter case, and
\* the identifier unchanged when routing fell through to the fallback.
C13_OnlyLeadingPrefixStripped ==
    \A t \in Threads :
        (req[t].provider = "ollama" /\ call[t] # NoCall) =>
            call[t].model = IF BeginsWithCI(req[t].model, S_ollama)
                            THEN SubSeq(req[t].model, Len(S_ollama) + 1, Len(req[t].model))
                            ELSE req[t].model

====
